---- MODULE Spec2Model ----
(***************************************************************************)
(* The React frontend of the image-search application: the tabbed App, the *)
(* ImageUpload, TextSearch and CSVUpload components, and the axios client  *)
(* of services/api.js.                                                     *)
(*                                                                         *)
(* A step is one run of a handler from its start to its first await, or    *)
(* one continuation after an await.  The state setters a handler calls,    *)
(* the re-render they schedule and the effect cleanup/setup of that render *)
(* are part of the same step.                                              *)
(***************************************************************************)
EXTENDS Integers, Sequences, FiniteSets, Bags, TLC

\* ------------------------------------------------------------- bounds
MaxUploads == 2      \* uploads started by handleUpload in one behaviour
MaxInFlight == 2     \* requests that are in flight together

\* --------------------------------------------------------- JS values
Null == "<null>"
Undefined == "<undefined>"
EmptyString == ""

\* JS truthiness of the string-or-absent values the model uses
Truthy(v) == v \notin {Null, Undefined, EmptyString}

\* String.prototype.trim over a string held as a sequence of characters
RECURSIVE TrimLeft(_)
TrimLeft(s) == IF s # <<>> /\ Head(s) = " " THEN TrimLeft(Tail(s)) ELSE s

RECURSIVE TrimRight(_)
TrimRight(s) ==
    IF s # <<>> /\ s[Len(s)] = " " THEN TrimRight(SubSeq(s, 1, Len(s) - 1)) ELSE s

\* a trim that strips the leading whitespace only
trim_leftOnly(s) == TrimLeft(s)

trim(s) == TrimRight(TrimLeft(s))

\* ------------------------------------------------------------- files
ImageMaxSize == 10485760      \* 10 * 1024 * 1024
CSVMaxSize == 52428800        \* 50 * 1024 * 1024
\* the accept option of useDropzone: a set of <<MIME type, extensions>>
\* entries, a MIME type held as <<type, subtype>>
ImageAccept == {<<<<"image", "*">>, {".jpeg", ".jpg", ".png", ".webp", ".bmp"}>>}
CSVAccept ==
    {<<<<"text", "csv">>, {".csv"}>>,
     <<<<"application", "vnd.openxmlformats-officedocument.spreadsheetml.sheet">>,
       {".xlsx"}>>,
     <<<<"application", "vnd.ms-excel">>, {".xls"}>>}

\* File.type as the browser derives it from the name's extension
MimeOf(ext) ==
    CASE ext = ".png" -> <<"image", "png">>
      [] ext = ".gif" -> <<"image", "gif">>
      [] ext = ".csv" -> <<"text", "csv">>
      [] ext = ".xls" -> <<"application", "vnd.ms-excel">>
      [] OTHER -> <<"text", "plain">>

File(ext, size) == [ext |-> ext, type |-> MimeOf(ext), size |-> size]
NoFile == [ext |-> Null, type |-> <<Null, Null>>, size |-> 0]
Files == {File(e, s) : e \in {".png", ".csv", ".txt"}, s \in {1024, ImageMaxSize + 1}}

\* react-dropzone tests a file against every MIME type and every extension
\* of the accept option: one match accepts it
MimeMatches(type, pattern) ==
    type[1] = pattern[1] /\ (pattern[2] = "*" \/ type[2] = pattern[2])

FileAccepted(f, accept) ==
    \E entry \in accept : MimeMatches(f.type, entry[1]) \/ f.ext \in entry[2]

\* react-dropzone: the files of a drop that reach onDrop as acceptedFiles;
\* without multiple, more than one passing file rejects them all
Accepted(files, accept, maxSize, multiple) ==
    LET passing == SelectSeq(files, LAMBDA f : FileAccepted(f, accept)
                                                /\ f.size <= maxSize)
    IN IF ~multiple /\ Len(passing) > 1 THEN <<>> ELSE passing

Drops == {<<>>} \cup {<<f>> : f \in Files} \cup
         {<<File(".png", 1024), File(".csv", 1024)>>}

\* the files and drops the dropzones are tried with on their own
DropzoneFiles ==
    {File(e, s) : e \in {".png", ".gif", ".csv", ".xls", ".txt"},
                  s \in {ImageMaxSize, ImageMaxSize + 1, CSVMaxSize, CSVMaxSize + 1}}
DropzoneDrops ==
    {<<>>} \cup {<<f>> : f \in DropzoneFiles} \cup
    {<<File(a, ImageMaxSize), File(b, ImageMaxSize)>> :
        a, b \in {".png", ".csv", ".txt"}}

\* ------------------------------------------------- api.js: interceptor
NoResponse == [status |-> Null, data |-> Null, detail |-> Null, message |-> Null]

\* an axios error: response (or none), whether a request was sent, message
AxiosErrors ==
    [response : {NoResponse} \cup
                [status : {"404", "500"},
                 data : {"object", Undefined},
                 detail : {Undefined, EmptyString, "detail text"},
                 message : {Undefined, EmptyString, "message text"}],
     request : BOOLEAN,
     message : {Undefined, EmptyString, "Network Error"}]

\* error.response.data?.detail and error.response.data?.message
DataField(response, field) ==
    IF response.data = Undefined THEN Undefined ELSE response[field]

\* an interceptor that prefers data.message to data.detail
Or3_secondFirst(a, b, c) ==
    IF Truthy(b) THEN <<b>> ELSE IF Truthy(a) THEN <<a>> ELSE c

\* a || b || c, each operand the message of the Error it would make
Or3(a, b, c) == IF Truthy(a) THEN <<a>> ELSE IF Truthy(b) THEN <<b>> ELSE c

\* detail || message || `Server error: ${status}`
ServerMessage(response) ==
    Or3(DataField(response, "detail"), DataField(response, "message"),
        <<"Server error: ", response.status>>)

\* the message of the Error the response interceptor throws
ErrorMessage(error) ==
    IF error.response # NoResponse
    THEN ServerMessage(error.response)
    ELSE IF error.request
         THEN <<"No response from server. Please check your connection.">>
         ELSE IF Truthy(error.message)
              THEN <<error.message>>
              ELSE <<"An unexpected error occurred">>

\* ------------------------------------------------ api.js: functions
\* Numbers that are only passed through (top_k, batch_size) are held as
\* strings, so that an omitted argument (Undefined) compares with them.
NoUrls == <<Undefined>>
NoForm == [file |-> NoFile, top_k |-> Undefined]
NoJson ==
    [query |-> Undefined, top_k |-> Undefined, image_urls |-> NoUrls,
     batch_size |-> Undefined]
NoParams == [top_k |-> Undefined]

\* a default parameter value applies when the argument is undefined
Default(arg, dflt) == IF arg = Undefined THEN dflt ELSE arg

\* an upload that posts the form a second time
uploadImageAndSearch_twice(imageFile, topK) ==
    LET request == [method |-> "POST", url |-> "/upload",
                    contentType |-> "multipart/form-data",
                    form |-> [file |-> imageFile, top_k |-> Undefined],
                    json |-> NoJson,
                    params |-> [top_k |-> Default(topK, "5")]]
    IN <<request, request>>

uploadImageAndSearch(imageFile, topK) ==
    <<[method |-> "POST", url |-> "/upload",
       contentType |-> "multipart/form-data",
       form |-> [file |-> imageFile, top_k |-> Undefined],
       json |-> NoJson,
       params |-> [top_k |-> Default(topK, "5")]]>>

searchImages(q, topK) ==
    <<[method |-> "POST", url |-> "/search",
       contentType |-> "application/json",
       form |-> NoForm,
       json |-> [query |-> q, top_k |-> Default(topK, "5"),
                 image_urls |-> NoUrls, batch_size |-> Undefined],
       params |-> NoParams]>>

indexImages(imageUrls, batchSize) ==
    <<[method |-> "POST", url |-> "/index",
       contentType |-> "application/json",
       form |-> NoForm,
       json |-> [query |-> Undefined, top_k |-> Undefined,
                 image_urls |-> imageUrls,
                 batch_size |-> Default(batchSize, "10")],
       params |-> NoParams]>>

getHealthStatus ==
    <<[method |-> "GET", url |-> "/health", contentType |-> "application/json",
       form |-> NoForm, json |-> NoJson, params |-> NoParams]>>

\* a stats call pasted from the health call
getSystemStats_health ==
    <<[method |-> "GET", url |-> "/health", contentType |-> "application/json",
       form |-> NoForm, json |-> NoJson, params |-> NoParams]>>

getSystemStats ==
    <<[method |-> "GET", url |-> "/stats", contentType |-> "application/json",
       form |-> NoForm, json |-> NoJson, params |-> NoParams]>>

\* the errors the component-level specifications draw from
UIErrors ==
    {e \in AxiosErrors :
        \/ e.response = NoResponse /\ e.request /\ e.message = "Network Error"
        \/ /\ e.response # NoResponse /\ e.response.status = "500"
           /\ e.response.data = "object" /\ e.response.detail = "detail text"
           /\ e.response.message = Undefined
           /\ e.request /\ e.message = Undefined}

\* ------------------------------------------------------------- state
VARIABLES
    \* App
    activeTab, isLoading, searchResults,
    \* ImageUpload
    selectedImage, previewUrl,
    \* TextSearch
    query,
    \* CSVUpload
    selectedFile, columnName, isUploading, uploadResults, showSettings,
    progress, taskId,
    interval,        \* the timer of the polling effect, with the taskId it closed over
    \* environment
    net,             \* requests in flight, one bag per api function
    uploads,         \* uploads started so far (the server's task counter)
    handled,         \* history: the tasks whose end the polling callback has handled
    toast,           \* the toast raised by the last step
    ev,              \* the last step: which handler ran and how it ended
    \* api.js called on its own
    call, sent, outcome

appVars == <<activeTab, isLoading, searchResults>>
imageVars == <<selectedImage, previewUrl>>
csvVars == <<selectedFile, columnName, isUploading, uploadResults, showSettings,
             progress, taskId, interval>>
uiVars == <<appVars, imageVars, query, csvVars, net, uploads, handled, toast, ev>>
apiVars == <<call, sent, outcome>>
vars == <<uiVars, apiVars>>

Tabs == {"image", "text", "csv"}
Queries == {<<>>, <<" ">>, <<"a">>, <<" ", "a", " ", "b", " ">>}
ColumnNames == {<<"u", "r", "l">>, <<" ">>, <<>>}
Results == {"results A", "results B"}
TaskNames == <<"task-1", "task-2", "task-3", "task-4">>

NoInterval == [taskId |-> Null, set |-> FALSE]
NoProgress ==
    [task |-> Null, status |-> Null, current |-> 0, total |-> 0, errors |-> <<>>]
NoResults ==
    [task |-> Null, total_urls |-> 0, successful_indexes |-> 0, failed_urls |-> <<>>]
NoToast == [type |-> Null, text |-> <<>>]
NoEvent == [handler |-> Null, phase |-> Null, api |-> Null, data |-> Null, files |-> <<>>]
NoCall == [fn |-> Null, file |-> NoFile, text |-> Undefined, urls |-> NoUrls,
           opt |-> Undefined]
NoError == [response |-> NoResponse, request |-> FALSE, message |-> Undefined]
NoReply == [status |-> Null, data |-> Null]
Idle == [status |-> "idle", value |-> <<>>, error |-> NoError, response |-> NoReply]

\* what GET progress can answer for a task
ProgressData(task) ==
    {[task |-> task, status |-> "processing", current |-> 1, total |-> 2,
      errors |-> <<>>],
     [task |-> task, status |-> "completed", current |-> 2, total |-> 2,
      errors |-> <<>>],
     [task |-> task, status |-> "completed", current |-> 2, total |-> 2,
      errors |-> <<"bad url">>],
     [task |-> task, status |-> "error", current |-> 1, total |-> 2,
      errors |-> <<>>]}

EmptyNet ==
    [image |-> EmptyBag, text |-> EmptyBag, csv |-> EmptyBag, progress |-> EmptyBag]

Init ==
    /\ activeTab = "image" /\ isLoading = FALSE /\ searchResults = Null
    /\ selectedImage = NoFile /\ previewUrl = Null
    /\ query = <<>>
    /\ selectedFile = NoFile /\ columnName = <<"u", "r", "l">>
    /\ isUploading = FALSE /\ uploadResults = NoResults /\ showSettings = FALSE
    /\ progress = NoProgress /\ taskId = Null /\ interval = NoInterval
    /\ net = EmptyNet /\ uploads = 0 /\ handled = {} /\ toast = NoToast /\ ev = NoEvent
    /\ call = NoCall /\ sent = <<>> /\ outcome = Idle

\* ------------------------------------------------------------ helpers
RECURSIVE SumCopies(_, _)
SumCopies(B, S) ==
    IF S = {} THEN 0
    ELSE LET e == CHOOSE x \in S : TRUE IN B[e] + SumCopies(B, S \ {e})

\* the bag of F(e) for the elements e of bag B
BagMap(B, F(_)) ==
    [y \in {F(e) : e \in DOMAIN B} |->
        SumCopies(B, {e \in DOMAIN B : F(e) = y})]

RECURSIVE AddAll(_, _)
AddAll(B, reqs) ==
    IF reqs = <<>> THEN B ELSE AddAll(B (+) SetToBag({Head(reqs)}), Tail(reqs))

Remove(B, r) == B (-) SetToBag({r})

InFlight ==
    BagCardinality(net.image) + BagCardinality(net.text)
        + BagCardinality(net.csv) + BagCardinality(net.progress)

Toast(type, text) == [type |-> type, text |-> text]
\* the last step: the handler that ran, the part of it (its start up to the
\* first await, or its continuation after a resolved or rejected await), the
\* api function awaited, and the handler's argument or the data it received
Event(handler, phase, api, data) ==
    [handler |-> handler, phase |-> phase, api |-> api, data |-> data, files |-> <<>>]
\* the step of a dropzone, with the files that were dropped
DropEvent(handler, files) == [Event(handler, "start", Null, Null) EXCEPT !.files = files]

\* ---------------------------------------------------------------- App
\* a completion that leaves the spinner on
handleSearchComplete_keepsLoading(results) ==
    /\ searchResults' = results
    /\ isLoading' = isLoading

handleSearchComplete(results) ==
    /\ searchResults' = results
    /\ isLoading' = FALSE

handleSearchStart ==
    /\ isLoading' = TRUE
    /\ searchResults' = Null

\* a component that leaves the tree loses its state; the next mount starts
\* from the useState initial values
ImageUploadInitial == selectedImage' = NoFile /\ previewUrl' = Null
TextSearchInitial == query' = <<>>
CSVUploadInitial ==
    /\ selectedFile' = NoFile /\ columnName' = <<"u", "r", "l">>
    /\ isUploading' = FALSE /\ uploadResults' = NoResults /\ showSettings' = FALSE
    /\ progress' = NoProgress /\ taskId' = Null

\* the requests of an unmounted CSVUpload (or of a cleared timer) stay in flight
Orphaned(r) == [r EXCEPT !.alive = FALSE, !.own = FALSE]
Disowned(r) == [r EXCEPT !.own = FALSE]

\* a switchTab without its test
TabSwitchAllowed_always == TRUE

\* if (!isLoading)
TabSwitchAllowed == ~isLoading

switchTab(tab) ==
    /\ IF TabSwitchAllowed
       THEN /\ activeTab' = tab
            /\ searchResults' = Null
            /\ IF tab # activeTab
               THEN /\ ImageUploadInitial /\ TextSearchInitial /\ CSVUploadInitial
                    /\ interval' = NoInterval      \* the effect's cleanup
                    /\ net' = [net EXCEPT !.csv = BagMap(@, Orphaned),
                                          !.progress = BagMap(@, Orphaned)]
               ELSE UNCHANGED <<imageVars, query, csvVars, net>>
       ELSE UNCHANGED <<activeTab, searchResults, imageVars, query, csvVars, net>>
    /\ ev' = Event("switchTab", "start", Null, tab)
    /\ toast' = NoToast
    /\ UNCHANGED <<isLoading, uploads, handled, apiVars>>

\* -------------------------------------------------------- ImageUpload
ImageUpload_onDrop(acceptedFiles) ==
    /\ activeTab = "image"
    /\ IF acceptedFiles # <<>>
       THEN selectedImage' = acceptedFiles[1] /\ previewUrl' = "blob:preview"
       ELSE UNCHANGED imageVars
    /\ toast' = NoToast
    /\ UNCHANGED <<appVars, query, csvVars, net, uploads, handled, apiVars>>

ImageUpload_drop(files) ==
    /\ ImageUpload_onDrop(Accepted(files, ImageAccept, ImageMaxSize, FALSE))
    /\ ev' = DropEvent("ImageUpload.onDrop", files)

clearImage ==
    /\ activeTab = "image"
    /\ selectedImage' = NoFile
    /\ previewUrl' = Null
    /\ ev' = Event("clearImage", "start", Null, Null)
    /\ toast' = NoToast
    /\ UNCHANGED <<appVars, query, csvVars, net, uploads, handled, apiVars>>

\* a handleSearch without its test of the selection
ImageSelected_always == TRUE

\* if (!selectedImage) ... return
ImageSelected == selectedImage # NoFile

ImageUpload_handleSearch ==
    /\ activeTab = "image"
    /\ IF ~ImageSelected
       THEN /\ toast' = Toast("error", <<"Please select an image first">>)
            /\ ev' = Event("ImageUpload.handleSearch", "start", Null, Null)
            /\ UNCHANGED <<isLoading, searchResults, net>>
       ELSE /\ InFlight < MaxInFlight
            /\ handleSearchStart
            /\ net' = [net EXCEPT !.image =
                          AddAll(@, uploadImageAndSearch(selectedImage, Undefined))]
            /\ toast' = NoToast
            /\ ev' = Event("ImageUpload.handleSearch", "start", "uploadImageAndSearch", Null)
    /\ UNCHANGED <<activeTab, imageVars, query, csvVars, uploads, handled, apiVars>>

\* await uploadImageAndSearch(...) resolved with response.data
ImageUpload_searchResolved(r, data) ==
    /\ BagIn(r, net.image)
    /\ net' = [net EXCEPT !.image = Remove(@, r)]
    /\ handleSearchComplete(data)
    /\ toast' = Toast("success", <<"Search completed successfully!">>)
    /\ ev' = Event("ImageUpload.handleSearch", "resolved", "uploadImageAndSearch", data)
    /\ UNCHANGED <<activeTab, imageVars, query, csvVars, uploads, handled, apiVars>>

\* await uploadImageAndSearch(...) threw the interceptor's Error
ImageUpload_searchRejected(r, error) ==
    /\ BagIn(r, net.image)
    /\ net' = [net EXCEPT !.image = Remove(@, r)]
    /\ toast' = Toast("error", <<"Search failed: ">> \o ErrorMessage(error))
    /\ handleSearchComplete(Null)
    /\ ev' = Event("ImageUpload.handleSearch", "rejected", "uploadImageAndSearch", Null)
    /\ UNCHANGED <<activeTab, imageVars, query, csvVars, uploads, handled, apiVars>>

\* --------------------------------------------------------- TextSearch
\* services/api.js exports no searchImagesByText: one request carrying the query
searchImagesByText(q) == <<[query |-> q]>>

setQuery(q) ==
    /\ activeTab = "text"
    /\ query' = q
    /\ ev' = Event("setQuery", "start", Null, Null)
    /\ toast' = NoToast
    /\ UNCHANGED <<appVars, imageVars, csvVars, net, uploads, handled, apiVars>>

TextSearch_handleSearch ==
    /\ activeTab = "text"
    /\ IF trim(query) = <<>>
       THEN /\ toast' = Toast("error", <<"Please enter a search query">>)
            /\ ev' = Event("TextSearch.handleSearch", "start", Null, Null)
            /\ UNCHANGED <<isLoading, searchResults, net>>
       ELSE /\ InFlight < MaxInFlight
            /\ handleSearchStart
            /\ net' = [net EXCEPT !.text = AddAll(@, searchImagesByText(trim(query)))]
            /\ toast' = NoToast
            /\ ev' = Event("TextSearch.handleSearch", "start", "searchImagesByText", Null)
    /\ UNCHANGED <<activeTab, imageVars, query, csvVars, uploads, handled, apiVars>>

TextSearch_searchResolved(r, data) ==
    /\ BagIn(r, net.text)
    /\ net' = [net EXCEPT !.text = Remove(@, r)]
    /\ handleSearchComplete(data)
    /\ toast' = Toast("success", <<"Search completed successfully!">>)
    /\ ev' = Event("TextSearch.handleSearch", "resolved", "searchImagesByText", data)
    /\ UNCHANGED <<activeTab, imageVars, query, csvVars, uploads, handled, apiVars>>

TextSearch_searchRejected(r, error) ==
    /\ BagIn(r, net.text)
    /\ net' = [net EXCEPT !.text = Remove(@, r)]
    /\ toast' = Toast("error", <<"Search failed: ">> \o ErrorMessage(error))
    /\ handleSearchComplete(Null)
    /\ ev' = Event("TextSearch.handleSearch", "rejected", "searchImagesByText", Null)
    /\ UNCHANGED <<activeTab, imageVars, query, csvVars, uploads, handled, apiVars>>

\* ---------------------------------------------------------- CSVUpload
\* services/api.js exports neither function: each is one request
uploadCSVWithProgress(file, column) == <<[file |-> file, column |-> column]>>
getUploadProgress(tid) == <<[taskId |-> tid]>>

NumStr(n) == <<"0", "1", "2", "3">>[n + 1]

\* the dependency array of the polling effect
EffectDeps(tid, up) == <<tid, up>>

\* a polling effect that tests taskId alone
PollingEffect_ignoresUploading(tid, up) ==
    IF Truthy(tid) THEN [taskId |-> tid, set |-> TRUE] ELSE NoInterval

\* the body of the polling effect: the timer it sets for a render
PollingEffect(tid, up) ==
    IF Truthy(tid) /\ up THEN [taskId |-> tid, set |-> TRUE] ELSE NoInterval

\* The render that follows a step of a mounted CSVUpload, which leaves taskId
\* at tid and isUploading at up, the timer at iv and the progress requests at
\* P: when a dependency changed, the cleanup clears the timer and the effect
\* runs again.
Render(tid, up, iv, P, csvBag) ==
    LET changed == EffectDeps(tid, up) # EffectDeps(taskId, isUploading) IN
    /\ interval' = IF changed THEN PollingEffect(tid, up) ELSE iv
    /\ net' = [net EXCEPT !.csv = csvBag,
                          !.progress = IF changed THEN BagMap(P, Disowned) ELSE P]

\* one firing of setInterval's callback, up to its await
Interval_tick ==
    /\ activeTab = "csv"
    /\ interval.set
    /\ InFlight < MaxInFlight
    /\ net' = [net EXCEPT !.progress =
                  AddAll(@, [i \in 1..Len(getUploadProgress(interval.taskId)) |->
                               [taskId |-> getUploadProgress(interval.taskId)[i].taskId,
                                own |-> TRUE, alive |-> TRUE]])]
    /\ ev' = Event("interval", "start", "getUploadProgress", Null)
    /\ toast' = NoToast
    /\ UNCHANGED <<appVars, imageVars, query, csvVars, uploads, handled, apiVars>>

\* a callback that ends the polling on 'completed' alone
IsTerminal_onlyCompleted(progressData) == progressData.status = "completed"

\* progressData.status === 'completed' || progressData.status === 'error'
IsTerminal(progressData) == progressData.status \in {"completed", "error"}

successCount(progressData) == progressData.current - Len(progressData.errors)

\* the callback after await getUploadProgress(taskId) resolved
Interval_progressResolved(r, progressData) ==
    /\ BagIn(r, net.progress)
    /\ IF r.alive
       THEN /\ progress' = progressData
            /\ isUploading' = IF IsTerminal(progressData) THEN FALSE ELSE isUploading
            /\ uploadResults' =
                  IF progressData.status = "completed"
                  THEN [task |-> progressData.task,
                        total_urls |-> progressData.total,
                        successful_indexes |-> successCount(progressData),
                        failed_urls |-> progressData.errors]
                  ELSE uploadResults
            /\ LET cleared == IsTerminal(progressData) /\ r.own    \* clearInterval(interval)
                   rest == Remove(net.progress, r) IN
               Render(taskId, isUploading',
                      IF cleared THEN NoInterval ELSE interval,
                      IF cleared THEN BagMap(rest, Disowned) ELSE rest,
                      net.csv)
       ELSE /\ net' = [net EXCEPT !.progress = Remove(@, r)]
            /\ UNCHANGED <<progress, isUploading, uploadResults, interval>>
    /\ toast' = IF progressData.status = "completed"
                THEN Toast("success", <<"Successfully indexed ",
                                        NumStr(successCount(progressData)), " images!">>)
                ELSE IF progressData.status = "error"
                     THEN Toast("error", <<"Upload failed">>)
                     ELSE NoToast
    /\ ev' = Event("interval", "resolved", "getUploadProgress", progressData.status)
    /\ UNCHANGED <<appVars, imageVars, query, selectedFile, columnName, showSettings,
                   taskId, uploads, apiVars>>

\* the callback's catch: console.error only
Interval_progressRejected(r, error) ==
    /\ BagIn(r, net.progress)
    /\ net' = [net EXCEPT !.progress = Remove(@, r)]
    /\ toast' = NoToast
    /\ ev' = Event("interval", "rejected", "getUploadProgress", Null)
    /\ UNCHANGED <<appVars, imageVars, query, csvVars, uploads, handled, apiVars>>

CSVUpload_onDrop(acceptedFiles) ==
    /\ activeTab = "csv"
    /\ IF acceptedFiles # <<>>
       THEN /\ selectedFile' = acceptedFiles[1]
            /\ uploadResults' = NoResults
            /\ progress' = NoProgress
            /\ taskId' = Null
            /\ Render(Null, isUploading, interval, net.progress, net.csv)
       ELSE UNCHANGED <<selectedFile, uploadResults, progress, taskId, interval, net>>
    /\ toast' = NoToast
    /\ UNCHANGED <<appVars, imageVars, query, columnName, isUploading, showSettings,
                   uploads, handled, apiVars>>

CSVUpload_drop(files) ==
    /\ CSVUpload_onDrop(Accepted(files, CSVAccept, CSVMaxSize, FALSE))
    /\ ev' = DropEvent("CSVUpload.onDrop", files)

\* a handleUpload without its test of the selection
FileSelected_always == TRUE

\* if (!selectedFile) ... return
FileSelected == selectedFile # NoFile

handleUpload ==
    /\ activeTab = "csv"
    /\ IF ~FileSelected
       THEN /\ toast' = Toast("error", <<"Please select a file first">>)
            /\ ev' = Event("handleUpload", "start", Null, Null)
            /\ UNCHANGED <<isUploading, uploadResults, progress, interval, net, uploads>>
       ELSE IF trim(columnName) = <<>>
       THEN /\ toast' = Toast("error",
                              <<"Please specify the column name containing URLs">>)
            /\ ev' = Event("handleUpload", "start", Null, Null)
            /\ UNCHANGED <<isUploading, uploadResults, progress, interval, net, uploads>>
       ELSE /\ uploads < MaxUploads
            /\ InFlight < MaxInFlight
            /\ isUploading' = TRUE
            /\ uploadResults' = NoResults
            /\ progress' = NoProgress
            /\ uploads' = uploads + 1
            /\ LET reqs == uploadCSVWithProgress(selectedFile, trim(columnName)) IN
               Render(taskId, TRUE, interval, net.progress,
                      AddAll(net.csv,
                             [i \in 1..Len(reqs) |->
                                [file |-> reqs[i].file, column |-> reqs[i].column,
                                 task |-> TaskNames[uploads + 1],
                                 own |-> FALSE, alive |-> TRUE]]))
            /\ toast' = NoToast
            /\ ev' = Event("handleUpload", "start", "uploadCSVWithProgress", Null)
    /\ UNCHANGED <<appVars, imageVars, query, selectedFile, columnName, showSettings,
                   taskId, handled, apiVars>>

\* after await uploadCSVWithProgress(...) resolved with {task_id}
handleUpload_resolved(r) ==
    /\ BagIn(r, net.csv)
    /\ IF r.alive
       THEN /\ taskId' = r.task
            /\ Render(r.task, isUploading, interval, net.progress, Remove(net.csv, r))
       ELSE /\ net' = [net EXCEPT !.csv = Remove(@, r)]
            /\ UNCHANGED <<taskId, interval>>
    /\ toast' = Toast("success", <<"Upload started! Processing images...">>)
    /\ ev' = Event("handleUpload", "resolved", "uploadCSVWithProgress", r.task)
    /\ UNCHANGED <<appVars, imageVars, query, selectedFile, columnName, isUploading,
                   uploadResults, showSettings, progress, uploads, handled, apiVars>>

\* the catch of handleUpload
handleUpload_rejected(r, error) ==
    /\ BagIn(r, net.csv)
    /\ toast' = Toast("error", <<"Upload failed: ">> \o ErrorMessage(error))
    /\ IF r.alive
       THEN /\ isUploading' = FALSE
            /\ Render(taskId, FALSE, interval, net.progress, Remove(net.csv, r))
       ELSE /\ net' = [net EXCEPT !.csv = Remove(@, r)]
            /\ UNCHANGED <<isUploading, interval>>
    /\ ev' = Event("handleUpload", "rejected", "uploadCSVWithProgress", Null)
    /\ UNCHANGED <<appVars, imageVars, query, selectedFile, columnName, uploadResults,
                   showSettings, progress, taskId, uploads, handled, apiVars>>

clearFile ==
    /\ activeTab = "csv"
    /\ selectedFile' = NoFile
    /\ uploadResults' = NoResults
    /\ progress' = NoProgress
    /\ taskId' = Null
    /\ Render(Null, isUploading, interval, net.progress, net.csv)
    /\ ev' = Event("clearFile", "start", Null, Null)
    /\ toast' = NoToast
    /\ UNCHANGED <<appVars, imageVars, query, columnName, isUploading, showSettings,
                   uploads, handled, apiVars>>

setColumnName(c) ==
    /\ activeTab = "csv"
    /\ columnName' = c
    /\ ev' = Event("setColumnName", "start", Null, Null)
    /\ toast' = NoToast
    /\ UNCHANGED <<appVars, imageVars, query, selectedFile, isUploading, uploadResults,
                   showSettings, progress, taskId, interval, net, uploads, handled, apiVars>>

setShowSettings(b) ==
    /\ activeTab = "csv"
    /\ showSettings' = b
    /\ ev' = Event("setShowSettings", "start", Null, Null)
    /\ toast' = NoToast
    /\ UNCHANGED <<appVars, imageVars, query, selectedFile, columnName, isUploading,
                   uploadResults, progress, taskId, interval, net, uploads, handled, apiVars>>

\* ------------------------------------------- api.js called on its own
TopKs == {Undefined, "3", "5"}
BatchSizes == {Undefined, "10", "20"}
ApiQueries == {"sunset over mountains", EmptyString}
UrlLists == {<<>>, <<"https://example.com/image1.jpg">>}

Pending == [Idle EXCEPT !.status = "pending"]

\* return response.data
ReturnValue(response) == <<response.data>>

Api_uploadImageAndSearch(imageFile, topK) ==
    /\ outcome = Idle
    /\ call' = [NoCall EXCEPT !.fn = "uploadImageAndSearch", !.file = imageFile,
                              !.opt = topK]
    /\ sent' = uploadImageAndSearch(imageFile, topK)
    /\ outcome' = Pending
    /\ UNCHANGED uiVars

Api_searchImages(q, topK) ==
    /\ outcome = Idle
    /\ call' = [NoCall EXCEPT !.fn = "searchImages", !.text = q, !.opt = topK]
    /\ sent' = searchImages(q, topK)
    /\ outcome' = Pending
    /\ UNCHANGED uiVars

Api_indexImages(imageUrls, batchSize) ==
    /\ outcome = Idle
    /\ call' = [NoCall EXCEPT !.fn = "indexImages", !.urls = imageUrls,
                              !.opt = batchSize]
    /\ sent' = indexImages(imageUrls, batchSize)
    /\ outcome' = Pending
    /\ UNCHANGED uiVars

Api_getHealthStatus ==
    /\ outcome = Idle
    /\ call' = [NoCall EXCEPT !.fn = "getHealthStatus"]
    /\ sent' = getHealthStatus
    /\ outcome' = Pending
    /\ UNCHANGED uiVars

Api_getSystemStats ==
    /\ outcome = Idle
    /\ call' = [NoCall EXCEPT !.fn = "getSystemStats"]
    /\ sent' = getSystemStats
    /\ outcome' = Pending
    /\ UNCHANGED uiVars

\* the awaited request resolved: return response.data
Api_resolved(data) ==
    /\ outcome = Pending
    /\ LET response == [status |-> "200", data |-> data] IN
       outcome' = [status |-> "returned", value |-> ReturnValue(response),
                   error |-> NoError, response |-> response]
    /\ UNCHANGED <<call, sent, uiVars>>

\* the awaited request failed: the response interceptor throws
Api_rejected(error) ==
    /\ outcome = Pending
    /\ outcome' = [status |-> "thrown", value |-> ErrorMessage(error),
                   error |-> error, response |-> NoReply]
    /\ UNCHANGED <<call, sent, uiVars>>

Api_done ==
    /\ outcome.status \in {"returned", "thrown"}
    /\ call' = NoCall /\ sent' = <<>> /\ outcome' = Idle
    /\ UNCHANGED uiVars

NextApi ==
    \/ \E f \in Files, k \in TopKs : Api_uploadImageAndSearch(f, k)
    \/ \E q \in ApiQueries, k \in TopKs : Api_searchImages(q, k)
    \/ \E u \in UrlLists, b \in BatchSizes : Api_indexImages(u, b)
    \/ Api_getHealthStatus
    \/ Api_getSystemStats
    \/ \E d \in Results : Api_resolved(d)
    \/ \E e \in AxiosErrors : Api_rejected(e)
    \/ Api_done

SpecApi == Init /\ [][NextApi]_vars

\* --------------------------------------------------- the rendered page
\* The events the rendered DOM can deliver: a button with disabled={...} set
\* delivers no click, and an element that is not rendered delivers nothing.
ClickTab(tab) == ~isLoading /\ switchTab(tab)

DropImage(files) == previewUrl = Null /\ ImageUpload_drop(files)
ClickClearImage == previewUrl # Null /\ clearImage
ClickFindSimilar == previewUrl # Null /\ ~isLoading /\ ImageUpload_handleSearch

TypeQuery(q) == ~isLoading /\ setQuery(q)
\* handleKeyPress: Enter in the input, whatever the query holds
PressEnter == ~isLoading /\ TextSearch_handleSearch

DropCSV(files) == selectedFile = NoFile /\ CSVUpload_drop(files)
ClickClearFile == selectedFile # NoFile /\ ~isUploading /\ clearFile
ClickSettings == selectedFile # NoFile /\ ~isUploading /\ setShowSettings(~showSettings)
TypeColumnName(c) ==
    selectedFile # NoFile /\ showSettings /\ ~isUploading /\ setColumnName(c)
ClickStartIndexing == selectedFile # NoFile /\ ~isUploading /\ handleUpload

SearchResponses ==
    \/ \E r \in BagToSet(net.image) :
          \/ \E d \in Results : ImageUpload_searchResolved(r, d)
          \/ \E e \in UIErrors : ImageUpload_searchRejected(r, e)
    \/ \E r \in BagToSet(net.text) :
          \/ \E d \in Results : TextSearch_searchResolved(r, d)
          \/ \E e \in UIErrors : TextSearch_searchRejected(r, e)

UploadResponses ==
    \E r \in BagToSet(net.csv) :
        \/ handleUpload_resolved(r)
        \/ \E e \in UIErrors : handleUpload_rejected(r, e)

ProgressResponses ==
    \E r \in BagToSet(net.progress) :
        \/ \E d \in ProgressData(r.taskId) :
              Interval_progressResolved(r, d) /\ UNCHANGED handled
        \/ \E e \in UIErrors : Interval_progressRejected(r, e)

\* the same responses, with the handling of a task's end kept in the history
RecordedProgressResponses ==
    \E r \in BagToSet(net.progress) :
        \/ \E d \in ProgressData(r.taskId) :
              /\ Interval_progressResolved(r, d)
              /\ handled' = IF IsTerminal(d) THEN handled \cup {r.taskId} ELSE handled
        \/ \E e \in UIErrors : Interval_progressRejected(r, e)

Responses == SearchResponses \/ UploadResponses \/ ProgressResponses

Next ==
    \/ \E tab \in Tabs : ClickTab(tab)
    \/ \E files \in Drops : DropImage(files)
    \/ ClickClearImage
    \/ ClickFindSimilar
    \/ \E q \in Queries : TypeQuery(q)
    \/ PressEnter
    \/ \E files \in Drops : DropCSV(files)
    \/ ClickClearFile
    \/ ClickSettings
    \/ \E c \in ColumnNames : TypeColumnName(c)
    \/ ClickStartIndexing
    \/ Interval_tick
    \/ Responses

Spec == Init /\ [][Next]_vars

\* The rendered page, with the history of the tasks whose end was handled
NextRecorded ==
    \/ \E tab \in Tabs : ClickTab(tab)
    \/ \E files \in Drops : DropImage(files)
    \/ ClickClearImage
    \/ ClickFindSimilar
    \/ \E q \in Queries : TypeQuery(q)
    \/ PressEnter
    \/ \E files \in Drops : DropCSV(files)
    \/ ClickClearFile
    \/ ClickSettings
    \/ \E c \in ColumnNames : TypeColumnName(c)
    \/ ClickStartIndexing
    \/ Interval_tick
    \/ SearchResponses
    \/ UploadResponses
    \/ RecordedProgressResponses

SpecRecorded == Init /\ [][NextRecorded]_vars

\* Every search request ends: the axios instance has a 60 s timeout, so the
\* awaited call resolves or rejects and the continuation of handleSearch runs.
FairSpec == Spec /\ WF_vars(SearchResponses)

\* The handlers of App, ImageUpload and TextSearch called as functions, in any
\* state of the mounted component, whatever the page renders or disables.
NextSearchHandlers ==
    \/ \E tab \in Tabs : switchTab(tab)
    \/ \E files \in Drops : ImageUpload_drop(files)
    \/ clearImage
    \/ ImageUpload_handleSearch
    \/ \E q \in Queries : setQuery(q)
    \/ TextSearch_handleSearch
    \/ SearchResponses

SpecSearchHandlers == Init /\ [][NextSearchHandlers]_vars

\* handleUpload called as a function, in any state the events of the CSV tab,
\* the polling timer and the responses lead the mounted component to.
NextCSVHandlers ==
    \/ \E tab \in Tabs : ClickTab(tab)
    \/ \E files \in Drops : DropCSV(files)
    \/ ClickClearFile
    \/ ClickSettings
    \/ \E c \in ColumnNames : TypeColumnName(c)
    \/ handleUpload
    \/ UploadResponses
    \/ Interval_tick
    \/ ProgressResponses

SpecCSVHandlers == Init /\ [][NextCSVHandlers]_vars

\* The two dropzones on their own, with files around both size limits
NextDropzone ==
    \/ \E tab \in Tabs : ClickTab(tab)
    \/ \E files \in DropzoneDrops : DropImage(files)
    \/ ClickClearImage
    \/ \E files \in DropzoneDrops : DropCSV(files)
    \/ ClickClearFile
    \/ ClickSettings
    \/ \E c \in ColumnNames : TypeColumnName(c)

SpecDropzone == Init /\ [][NextDropzone]_vars

\* ------------------------------------------------------------- claims
ProgressInFlight == BagCardinality(net.progress)

\* C1: a progress request is started only by the polling timer, only while
\* taskId is set and isUploading is true, one at a time, and it carries the
\* taskId the component holds when it is started.
C1_PollingOnlyWhileUploading ==
    [][BagCardinality(net'.progress) > ProgressInFlight =>
         /\ ev'.handler = "interval" /\ ev'.phase = "start"
         /\ taskId # Null
         /\ isUploading
         /\ BagCardinality(net'.progress) = ProgressInFlight + 1
         /\ \E r \in BagToSet(net'.progress) :
              /\ r.taskId = taskId
              /\ CopiesIn(r, net'.progress) = CopiesIn(r, net.progress) + 1]_vars

C1_Witness ==
    /\ ev.handler = "interval" /\ ev.phase = "start"
    /\ isUploading
    /\ \E r \in BagToSet(net.progress) : r.own /\ r.taskId = taskId

\* C2: once the mounted CSVUpload has handled a progress response with status
\* 'completed' or 'error', isUploading is false and no polling timer is set;
\* no timer is set while isUploading is false, no progress request is started
\* then, and only handleUpload makes isUploading true again.
C2_TerminalResponseStopsPolling ==
    /\ [](progress.status \in {"completed", "error"} =>
            ~isUploading /\ ~interval.set)
    /\ [](~isUploading => ~interval.set)
    /\ [][~isUploading => BagCardinality(net'.progress) <= ProgressInFlight]_vars
    /\ [][~isUploading /\ isUploading' =>
            ev'.handler = "handleUpload" /\ ev'.phase = "start"]_vars

C2_Witness ==
    /\ ev.handler = "interval" /\ ev.phase = "resolved"
    /\ ev.data \in {"completed", "error"}
    /\ progress.status = ev.data
    /\ ~isUploading /\ ~interval.set
    /\ taskId # Null

\* C3: every failed API call of a component raises an error toast.
C3_EveryFailedCallToasts ==
    ev.phase = "rejected" => toast.type = "error"

\* the three calls made by handleSearch and handleUpload do
C3_FailedSearchOrUploadToasts ==
    ev.phase = "rejected" /\ ev.api # "getUploadProgress" => toast.type = "error"

HandlerOf ==
    [image |-> "ImageUpload.handleSearch", text |-> "TextSearch.handleSearch",
     csv |-> "handleUpload"]

\* C4: an image-search, text-search or upload-start request is sent only by
\* the start of its handler, one request for one invocation; the step that
\* handles a failed request leaves one request fewer in flight and sends none.
C4_NoRetry ==
    [][\A k \in {"image", "text", "csv"} :
         /\ BagCardinality(net'[k]) <= BagCardinality(net[k]) + 1
         /\ BagCardinality(net'[k]) > BagCardinality(net[k]) =>
               ev'.handler = HandlerOf[k] /\ ev'.phase = "start"
         /\ ev'.handler = HandlerOf[k] /\ ev'.phase = "rejected" =>
               BagCardinality(net'[k]) = BagCardinality(net[k]) - 1]_vars

C4_Witness ==
    /\ ev.handler = "ImageUpload.handleSearch" /\ ev.phase = "rejected"
    /\ toast.type = "error"
    /\ InFlight = 0

SearchesInFlight == BagCardinality(net.image) + BagCardinality(net.text)
SearchHandlers == {"ImageUpload.handleSearch", "TextSearch.handleSearch"}

\* C5: a search that was started finishes. While isLoading is true exactly one
\* search request is in flight, and none otherwise; isLoading becomes false
\* only in the step that handles that request's outcome, which sets
\* searchResults to the response data on success and to null on failure; and
\* isLoading does become false again.
C5_SearchCompletes ==
    /\ [](isLoading <=> SearchesInFlight = 1)
    /\ [](SearchesInFlight <= 1)
    /\ [][isLoading /\ ~isLoading' =>
            /\ ev'.handler \in SearchHandlers
            /\ ev'.phase \in {"resolved", "rejected"}]_vars
    /\ [](ev.handler \in SearchHandlers /\ ev.phase = "resolved" =>
            ~isLoading /\ searchResults = ev.data)
    /\ [](ev.handler \in SearchHandlers /\ ev.phase = "rejected" =>
            ~isLoading /\ searchResults = Null)
    /\ (isLoading ~> ~isLoading)

C5_Witness ==
    /\ ev.handler = "TextSearch.handleSearch" /\ ev.phase = "resolved"
    /\ searchResults \in Results
    /\ ~isLoading

\* C6: switchTab(tab) called while isLoading is true leaves activeTab and
\* searchResults as they are; called while isLoading is false it makes tab the
\* active tab and sets searchResults to null. No step changes the active tab
\* while a search is loading.
C6_NoTabSwitchWhileLoading ==
    /\ [][ev'.handler = "switchTab" =>
            IF isLoading
            THEN activeTab' = activeTab /\ searchResults' = searchResults
            ELSE activeTab' = ev'.data /\ searchResults' = Null]_vars
    /\ [][isLoading => activeTab' = activeTab]_vars

C6_Witness ==
    /\ ev.handler = "switchTab"
    /\ isLoading
    /\ ev.data # activeTab

\* a value that || takes: neither absent nor the empty string
Present(v) == v # Undefined /\ v # Null /\ v # EmptyString

\* C7: the message of the Error thrown for a failed request. With a response:
\* data.detail when it is there, else data.message when it is there, else
\* 'Server error: <status>'. With a request and no response: 'No response from
\* server. Please check your connection.'. Otherwise the error's own message,
\* or 'An unexpected error occurred'. (A field is there when it is neither
\* absent nor empty, the way || tests it.)
C7_InterceptorMessage ==
    outcome.status = "thrown" =>
        LET e == outcome.error
            r == e.response
            detail == IF r.data = Undefined THEN Undefined ELSE r.detail
            message == IF r.data = Undefined THEN Undefined ELSE r.message
        IN /\ r # NoResponse /\ Present(detail) => outcome.value = <<detail>>
           /\ r # NoResponse /\ ~Present(detail) /\ Present(message) =>
                 outcome.value = <<message>>
           /\ r # NoResponse /\ ~Present(detail) /\ ~Present(message) =>
                 outcome.value = <<"Server error: ", r.status>>
           /\ r = NoResponse /\ e.request =>
                 outcome.value =
                     <<"No response from server. Please check your connection.">>
           /\ r = NoResponse /\ ~e.request /\ Present(e.message) =>
                 outcome.value = <<e.message>>
           /\ r = NoResponse /\ ~e.request /\ ~Present(e.message) =>
                 outcome.value = <<"An unexpected error occurred">>

C7_Witness ==
    /\ outcome.status = "thrown"
    /\ outcome.error.response # NoResponse
    /\ outcome.error.response.data # Undefined
    /\ outcome.error.response.detail = "detail text"
    /\ outcome.error.response.message = "message text"
    /\ outcome.value = <<"detail text">>

Endpoint ==
    [uploadImageAndSearch |-> <<"POST", "/upload">>,
     searchImages |-> <<"POST", "/search">>,
     indexImages |-> <<"POST", "/index">>,
     getHealthStatus |-> <<"GET", "/health">>,
     getSystemStats |-> <<"GET", "/stats">>]

\* C8: a call of an api.js function has issued exactly one request, to its own
\* endpoint; top_k is 5 and batch_size is 10 when the caller passed none, and
\* the caller's value otherwise; what the call returns is the response body.
C8_OneRequestPerCall ==
    call.fn # Null =>
        /\ Len(sent) = 1
        /\ <<sent[1].method, sent[1].url>> = Endpoint[call.fn]
        /\ call.fn = "uploadImageAndSearch" =>
              sent[1].params.top_k = IF call.opt = Undefined THEN "5" ELSE call.opt
        /\ call.fn = "searchImages" =>
              /\ sent[1].json.query = call.text
              /\ sent[1].json.top_k = IF call.opt = Undefined THEN "5" ELSE call.opt
        /\ call.fn = "indexImages" =>
              /\ sent[1].json.image_urls = call.urls
              /\ sent[1].json.batch_size =
                    IF call.opt = Undefined THEN "10" ELSE call.opt
        /\ outcome.status = "returned" => outcome.value = <<outcome.response.data>>

C8_Witness ==
    /\ call.fn = "indexImages"
    /\ call.opt = Undefined
    /\ outcome.status = "returned"
    /\ sent[1].json.batch_size = "10"

\* C9: the /upload request is multipart/form-data and its form carries the
\* image as field 'file' and top_k as a field, as the README's curl call does.
C9_UploadFormCarriesTopK ==
    call.fn = "uploadImageAndSearch" =>
        /\ Len(sent) = 1
        /\ sent[1].url = "/upload"
        /\ sent[1].contentType = "multipart/form-data"
        /\ sent[1].form.file = call.file
        /\ sent[1].form.top_k # Undefined

\* C10: ImageUpload.handleSearch called with no selected image sends no
\* request and calls neither onSearchStart nor onSearchComplete: the requests
\* in flight, isLoading and searchResults stay as they are, and the step
\* raises the error toast 'Please select an image first'.
C10_SearchWithoutImage ==
    [][/\ ev'.handler = "ImageUpload.handleSearch" /\ ev'.phase = "start"
       /\ selectedImage = NoFile
       => /\ net' = net
          /\ ev'.api = Null
          /\ isLoading' = isLoading
          /\ searchResults' = searchResults
          /\ toast' = [type |-> "error",
                       text |-> <<"Please select an image first">>]]_vars

C10_Witness ==
    /\ ev.handler = "ImageUpload.handleSearch" /\ ev.phase = "start"
    /\ selectedImage = NoFile
    /\ toast.type = "error"

\* a string of whitespace, the empty string included
Blank(s) == \A i \in 1..Len(s) : s[i] = " "

\* t is s without the whitespace s starts and ends with
Trimmed(s, t) ==
    /\ t # <<>> /\ t[1] # " " /\ t[Len(t)] # " "
    /\ \E i \in 0..Len(s) :
          /\ i + Len(t) <= Len(s)
          /\ SubSeq(s, i + 1, i + Len(t)) = t
          /\ \A k \in (1..i) \cup ((i + Len(t) + 1)..Len(s)) : s[k] = " "

\* C11: TextSearch.handleSearch called with an empty or whitespace-only query
\* sends no request and leaves isLoading and searchResults as they are; the
\* step raises the error toast 'Please enter a search query' and nothing else.
\* Called with any other query it sends one request, which carries the query
\* without its leading and trailing whitespace.
C11_TextSearchQuery ==
    [][ev'.handler = "TextSearch.handleSearch" /\ ev'.phase = "start" =>
         IF Blank(query)
         THEN /\ net' = net
              /\ ev'.api = Null
              /\ isLoading' = isLoading
              /\ searchResults' = searchResults
              /\ toast' = [type |-> "error",
                           text |-> <<"Please enter a search query">>]
         ELSE /\ \E r \in BagToSet(net'.text) :
                    /\ Trimmed(query, r.query)
                    /\ net'.text = net.text (+) SetToBag({r})
              /\ \A k \in {"image", "csv", "progress"} : net'[k] = net[k]
              /\ toast'.type # "error"]_vars

C11_Witness ==
    /\ ev.handler = "TextSearch.handleSearch" /\ ev.phase = "start"
    /\ query = <<" ">>
    /\ toast.type = "error"
    /\ net.text = EmptyBag

\* C12: handleUpload called with no selected file, or with a column name that
\* is empty once trimmed, sends no request and leaves isUploading,
\* uploadResults, progress and taskId (and the polling timer) as they are; the
\* step raises an error toast and nothing else.
C12_UploadWithoutFileOrColumn ==
    [][/\ ev'.handler = "handleUpload" /\ ev'.phase = "start"
       /\ selectedFile = NoFile \/ Blank(columnName)
       => /\ net' = net
          /\ ev'.api = Null
          /\ uploads' = uploads
          /\ isUploading' = isUploading
          /\ uploadResults' = uploadResults
          /\ progress' = progress
          /\ taskId' = taskId
          /\ interval' = interval
          /\ toast' = [type |-> "error",
                       text |-> IF selectedFile = NoFile
                                THEN <<"Please select a file first">>
                                ELSE <<"Please specify the column name containing URLs">>]]_vars

C12_Witness ==
    /\ ev.handler = "handleUpload" /\ ev.phase = "start"
    /\ selectedFile = NoFile
    /\ toast = [type |-> "error", text |-> <<"Please select a file first">>]
    /\ uploads > 0

\* the limits and types the dropzones' help texts name
ImageLimit == 10 * 1024 * 1024
ImageTypes == {".jpeg", ".jpg", ".png", ".webp", ".bmp"}
CSVLimit == 50 * 1024 * 1024
CSVTypes == {".csv", ".xlsx", ".xls"}

SingleFile(files, limit, types) ==
    Len(files) = 1 /\ files[1].size <= limit /\ files[1].ext \in types

\* C13: a drop changes the selection only if it is a single file within the
\* size limit and with one of the accepted extensions (10 MB and .jpeg, .jpg,
\* .png, .webp, .bmp for ImageUpload, 50 MB and .csv, .xlsx, .xls for
\* CSVUpload); any other drop leaves the component's state as it is.
C13_DropAcceptance ==
    [][/\ ev'.handler = "ImageUpload.onDrop"
          /\ ~SingleFile(ev'.files, ImageLimit, ImageTypes)
          => UNCHANGED imageVars
       /\ ev'.handler = "CSVUpload.onDrop"
          /\ ~SingleFile(ev'.files, CSVLimit, CSVTypes)
          => UNCHANGED csvVars]_vars

\* the files of a drop that pass a dropzone's size limit and match one of its
\* extensions or its MIME types
Passing(files, limit, types, mimes) ==
    SelectSeq(files, LAMBDA f : /\ f.size <= limit
                                /\ \/ f.ext \in types
                                   \/ f.type \in mimes
                                   \/ <<f.type[1], "*">> \in mimes)

\* what holds of a drop: when exactly one file of the drop passes, that file
\* becomes the selection; otherwise the component's state stays as it is
C13_DropSelectsTheOnePassingFile ==
    [][/\ ev'.handler = "ImageUpload.onDrop" =>
            LET passing == Passing(ev'.files, ImageLimit, ImageTypes, {<<"image", "*">>})
            IN IF Len(passing) = 1
               THEN selectedImage' = passing[1] /\ previewUrl' # Null
               ELSE UNCHANGED imageVars
       /\ ev'.handler = "CSVUpload.onDrop" =>
            LET passing == Passing(ev'.files, CSVLimit, CSVTypes,
                                   {<<"text", "csv">>, <<"application", "vnd.ms-excel">>,
                                    <<"application",
                                      "vnd.openxmlformats-officedocument.spreadsheetml.sheet">>})
            IN IF Len(passing) = 1
               THEN selectedFile' = passing[1] /\ taskId' = Null
               ELSE UNCHANGED csvVars]_vars

\* the task id the server gave to the upload started last
LatestTask == TaskNames[uploads]

\* C14: every progress request that is sent carries the task id returned to
\* the upload started last: once handleUpload has been invoked, no progress
\* request is sent with the task id of an earlier upload.
C14_ProgressTargetsLatestUpload ==
    [][BagCardinality(net'.progress) > ProgressInFlight =>
         \E r \in BagToSet(net'.progress) :
            /\ CopiesIn(r, net'.progress) = CopiesIn(r, net.progress) + 1
            /\ r.taskId = LatestTask]_vars

\* C15: whenever uploadResults is set it was computed from a progress response
\* for the upload started last, and a progress response that belongs to an
\* earlier upload neither ends the upload in progress (isUploading) nor sets
\* uploadResults.
C15_ResultsFromLatestUpload ==
    /\ [](uploadResults # NoResults => uploadResults.task = LatestTask)
    /\ [][/\ ev'.handler = "interval" /\ ev'.phase = "resolved"
          /\ \/ isUploading /\ ~isUploading'
             \/ uploadResults' # uploadResults
          => progress'.task = LatestTask]_vars

\* C16: the end of an upload task is handled at most once: the step in which
\* the polling callback handles a 'completed' or 'error' response (it raises
\* the toast and, on 'completed', sets uploadResults) does not happen for a
\* task whose end was handled before, however many progress requests for the
\* task are in flight together.
C16_CompletionHandledOnce ==
    [][/\ ev'.handler = "interval" /\ ev'.phase = "resolved"
       /\ ev'.data \in {"completed", "error"}
       => handled' # handled]_vars

====
